---------------------------- MODULE Spec2Model ----------------------------
(***************************************************************************)
(* Model of iss_tracker.py: a Flask service that answers queries about the *)
(* ISS trajectory from a remote XML feed of state vectors.                 *)
(*                                                                         *)
(* The service keeps no state of its own: every handler downloads the feed *)
(* again (fetch_iss_data), parses it (extract_state_vector) and answers    *)
(* from what it just downloaded.  The only shared resource is the remote   *)
(* feed, which its publisher replaces from time to time.                   *)
(*                                                                         *)
(* Python values are represented as follows.                               *)
(*   - An EPOCH string "YYYY-DDDThh:mm:ss" followed by a tail (".000Z" in  *)
(*     the NASA feed, nothing in the repository's tests) is the tuple      *)
(*     <<year, day-of-year, hour, minute, second, tail>>, the tail being   *)
(*     the sequence of its characters; the fixed-width slices of the code  *)
(*     ([5:8], [9:11], [12:14]) are its components.                        *)
(*   - A datetime is <<year, day-of-year, hour, minute, second>>.          *)
(*   - List indices are Python's (0-based); None as an index is NoneIndex. *)
(*   - The outcome of a call is [exc, val]: exc = "none" and the returned  *)
(*     value, or the exception that propagated.                            *)
(*   - What xmltodict returns under the key stateVector is a list when the *)
(*     feed holds two or more <stateVector> elements and the bare dict of  *)
(*     the one element when it holds exactly one.                          *)
(***************************************************************************)
EXTENDS Integers, Sequences, FiniteSets, TLC

VARIABLES
    feed,       \* the remote feed as published now: a sequence of samples
    lastGood,   \* history: <<content>> of the latest fetch that returned 200, <<>> if none
    now_req,    \* the /now request in flight: its position and its locals
    resp,       \* the response produced by the step just taken, if it produced one
    nearest,    \* harness of closest_datapoint_to_now: inputs and result
    speedq      \* harness of calculate_speed: input vector and result

vars == <<feed, lastGood, now_req, resp, nearest, speedq>>

---------------------------------------------------------------------------
(* Bounds of the model.                                                    *)

MaxLen == 3          \* longest feed of the service specification
MaxNearestLen == 2   \* longest feed handed to the nearest-epoch harness
MaxV == 2            \* velocity components range over -MaxV..MaxV
MaxArg == 1          \* offset and limit range a little beyond the feed on both sides

---------------------------------------------------------------------------
(* Python values.                                                          *)

HTTP_OK == 200
NoneIndex == -1
INF == 1000000
SpeedScale == 1000   \* speeds are fixed-point: floor(SpeedScale * sqrt(.))

Ok(v) == [exc |-> "none", val |-> v]
Raise(e) == [exc |-> e, val |-> <<>>]

PyList(items) == [type |-> "list", items |-> items]
PyDict(item) == [type |-> "dict", items |-> <<item>>]

Abs(n) == IF n < 0 THEN -n ELSE n

StateVector(epoch, x, y, z, xd, yd, zd) ==
    [EPOCH |-> epoch, X |-> x, Y |-> y, Z |-> z,
     X_DOT |-> xd, Y_DOT |-> yd, Z_DOT |-> zd]

\* what follows the seconds in an EPOCH string
NasaTail == <<".", "0", "0", "0", "Z">>
NoTail == <<>>

\* epoch_string[5:8], [9:11], [12:14]
day_number(epoch_string) == epoch_string[2]
hour_of(epoch_string) == epoch_string[3]
minute_of(epoch_string) == epoch_string[4]

---------------------------------------------------------------------------
(* calculate_speed: sqrt(x^2 + y^2 + z^2).                                 *)

RECURSIVE SqrtSearch(_, _, _)
\* the largest k in lo..hi with k*k <= n, by bisection (lo*lo <= n < (hi+1)^2)
SqrtSearch(n, lo, hi) ==
    IF lo >= hi THEN lo
    ELSE LET mid == (lo + hi + 1) \div 2
         IN IF mid * mid <= n THEN SqrtSearch(n, mid, hi)
                              ELSE SqrtSearch(n, lo, mid - 1)

\* math.sqrt on a non-negative integer, in units of 1/SpeedScale, rounded down
Sqrt(n, bound) == SqrtSearch(n * SpeedScale * SpeedScale, 0, bound * SpeedScale)

\* calculate_speed as it would be with the square of z_velocity forgotten
SpeedForgetsSquare(x_velocity, y_velocity, z_velocity) ==
    Sqrt(x_velocity * x_velocity + y_velocity * y_velocity + z_velocity,
         Abs(x_velocity) + Abs(y_velocity) + Abs(z_velocity))

calculate_speed(x_velocity, y_velocity, z_velocity) ==
    Sqrt(x_velocity * x_velocity + y_velocity * y_velocity + z_velocity * z_velocity,
         Abs(x_velocity) + Abs(y_velocity) + Abs(z_velocity))

---------------------------------------------------------------------------
(* fetch_iss_data, extract_state_vector.                                   *)

\* None on a status other than 200, else the downloaded content
fetch_iss_data(status_code, content) ==
    IF status_code = HTTP_OK
    THEN [none |-> FALSE, content |-> content]
    ELSE [none |-> TRUE, content |-> <<>>]

\* xmltodict.parse(None) raises; a feed without <stateVector> has no such key;
\* one <stateVector> parses to its dict, several to the list of their dicts
extract_state_vector(xml_data) ==
    IF xml_data.none THEN Raise("TypeError: parse(None)")
    ELSE IF Len(xml_data.content) = 0 THEN Raise("KeyError: stateVector")
    ELSE IF Len(xml_data.content) = 1 THEN Ok(PyDict(xml_data.content[1]))
    ELSE Ok(PyList(xml_data.content))

---------------------------------------------------------------------------
(* closest_datapoint_to_now.                                               *)

\* list.index(instance): the first position holding an equal dict
ListIndex(items, instance) ==
    (CHOOSE i \in 1..Len(items) :
        /\ items[i] = instance
        /\ \A j \in 1..(i - 1) : items[j] # instance) - 1

RECURSIVE list_of_minutes(_, _, _, _)
\* the first loop: the samples of the current day-of-year and hour, in feed order
list_of_minutes(items, k, current_day, current_hour) ==
    IF k > Len(items) THEN <<>>
    ELSE LET instance == items[k]
             rest == list_of_minutes(items, k + 1, current_day, current_hour)
         IN IF /\ day_number(instance.EPOCH) = current_day
               /\ hour_of(instance.EPOCH) = current_hour
            THEN <<[minute_val |-> minute_of(instance.EPOCH),
                    index |-> ListIndex(items, instance)]>> \o rest
            ELSE rest

RECURSIVE ScanMinutes(_, _, _, _, _)
\* the second loop: a later entry wins only on a strictly smaller difference
ScanMinutes(lst, k, current_min, min_difference, closest_value_index) ==
    IF k > Len(lst) THEN closest_value_index
    ELSE LET difference == Abs(lst[k].minute_val - current_min)
         IN IF difference < min_difference
            THEN ScanMinutes(lst, k + 1, current_min, difference, lst[k].index)
            ELSE ScanMinutes(lst, k + 1, current_min, min_difference, closest_value_index)

\* lines 167-198 on the parsed value; iterating a dict yields its keys, and
\* indexing a key (a str) with 'EPOCH' raises
closest_in_state_vector(state_vector, current_date_and_time) ==
    IF state_vector.type = "dict" THEN Raise("TypeError: str index")
    ELSE LET current_day == current_date_and_time[2]
             current_hour == current_date_and_time[3]
             current_min == current_date_and_time[4]
             lst == list_of_minutes(state_vector.items, 1, current_day, current_hour)
         IN Ok(ScanMinutes(lst, 1, current_min, INF, NoneIndex))

closest_datapoint_to_now(iss_data, current_date_and_time) ==
    LET parsed == extract_state_vector(iss_data)
    IN IF parsed.exc # "none" THEN parsed
       ELSE closest_in_state_vector(parsed.val, current_date_and_time)

---------------------------------------------------------------------------
(* Responses.  kind is "ok", "not_found" (the 'Epoch not found' strings),    *)
(* "invalid" (the 'Invalid ... parameter' strings) or "crash" (an exception  *)
(* left the handler: Flask answers 500).  sv is the state vector the answer  *)
(* was computed from, <<>> when there is none; trace is, for a /now answer,   *)
(* the record of which state vectors and snapshots went into it.             *)

Response(op, kind, error, args, body, sv, geocoder) ==
    [op |-> op, kind |-> kind, error |-> error, args |-> args, body |-> body,
     sv |-> sv, geocoder |-> geocoder, trace |-> <<>>]

NoResp == Response("none", "none", "", <<>>, <<>>, <<>>, "not_called")
Crash(op, error, args) == Response(op, "crash", error, args, <<>>, <<>>, "not_called")

\* request.args.get(name, default): absent, present and an integer literal,
\* or present and anything else (int() raises ValueError)
ArgAbsent == [given |-> FALSE, isint |-> TRUE, val |-> 0]
ArgBad == [given |-> TRUE, isint |-> FALSE, val |-> 0]
ArgInt(n) == [given |-> TRUE, isint |-> TRUE, val |-> n]

---------------------------------------------------------------------------
(* get_epochs.                                                             *)

\* a slice bound as Python normalises it against a list of length n
Clamp(i, n) ==
    IF i < 0 THEN (IF i + n < 0 THEN 0 ELSE i + n)
    ELSE IF i > n THEN n ELSE i

\* items[start:stop]
PySlice(items, start, stop) ==
    LET n == Len(items)
        lo == Clamp(start, n)
        hi == Clamp(stop, n)
    IN IF lo >= hi THEN <<>> ELSE SubSeq(items, lo + 1, hi)

get_epochs(xml_data, offset_arg, limit_arg) ==
    LET parsed == extract_state_vector(xml_data)
        args == <<offset_arg, limit_arg>>
    IN \* line 214 runs before the query parameters are read
       IF parsed.exc # "none" THEN Crash("list", parsed.exc, <<>>)
       ELSE IF ~offset_arg.isint
       THEN Response("list", "invalid", "", args,
                     "Invalid start parameter; start must be an integer.", <<>>, "not_called")
       ELSE IF ~limit_arg.isint
       THEN Response("list", "invalid", "", args,
                     "Invalid limit parameter; limit must be an integer.", <<>>, "not_called")
       ELSE IF parsed.val.type = "dict" THEN Crash("list", "TypeError: dict slice", args)
       ELSE LET data == parsed.val.items
                offset == IF offset_arg.given THEN offset_arg.val ELSE 0
                limit == IF limit_arg.given THEN limit_arg.val ELSE Len(data)
            IN Response("list", "ok", "", args, PySlice(data, offset, offset + limit),
                        <<>>, "not_called")

---------------------------------------------------------------------------
(* The exact-epoch queries.                                                *)

Matches(data, epoch) == {i \in 1..Len(data) : data[i].EPOCH = epoch}
Min(S) == CHOOSE i \in S : \A j \in S : i <= j
Max(S) == CHOOSE i \in S : \A j \in S : i >= j

\* the loop returns at the first match
get_specific_epoch(xml_data, epoch) ==
    LET parsed == extract_state_vector(xml_data)
    IN IF parsed.exc # "none" THEN Crash("epoch", parsed.exc, <<epoch>>)
       ELSE IF parsed.val.type = "dict" THEN Crash("epoch", "TypeError: str index", <<epoch>>)
       ELSE LET data == parsed.val.items
                m == Matches(data, epoch)
            IN IF m = {}
               THEN Response("epoch", "not_found", "", <<epoch>>, "Epoch not found",
                             <<>>, "not_called")
               ELSE Response("epoch", "ok", "", <<epoch>>, data[Min(m)],
                             <<data[Min(m)]>>, "not_called")

\* the loop returns at the first match; get_epoch_speed wraps whatever string
\* comes back as {'speed': ...}
epoch_speed(xml_data, epoch) ==
    LET parsed == extract_state_vector(xml_data)
    IN IF parsed.exc # "none" THEN Crash("speed", parsed.exc, <<epoch>>)
       ELSE IF parsed.val.type = "dict" THEN Crash("speed", "TypeError: str index", <<epoch>>)
       ELSE LET data == parsed.val.items
                m == Matches(data, epoch)
            IN IF m = {}
               THEN Response("speed", "not_found", "", <<epoch>>,
                             [speed |-> "Epoch not found"], <<>>, "not_called")
               ELSE LET item == data[Min(m)]
                    IN Response("speed", "ok", "", <<epoch>>,
                                [speed |-> calculate_speed(item.X_DOT, item.Y_DOT, item.Z_DOT)],
                                <<item>>, "not_called")

\* line 109: strptime(sv['EPOCH'][:-5], '%Y-%jT%H:%M:%S').  The cut takes the
\* last five characters whatever they are: a tail of five leaves the whole
\* "YYYY-DDDThh:mm:ss"; a tail of four takes the last digit of the seconds
\* with it, and %S reads the one digit left; a shorter tail leaves no seconds
\* and a longer one leaves characters over, and strptime raises
this_epoch_of(epoch_string) ==
    LET cut == Len(epoch_string[6])
    IN IF cut = 5
       THEN Ok(<<epoch_string[1], epoch_string[2], epoch_string[3], epoch_string[4],
                 epoch_string[5]>>)
       ELSE IF cut = 4
       THEN Ok(<<epoch_string[1], epoch_string[2], epoch_string[3], epoch_string[4],
                 epoch_string[5] \div 10>>)
       ELSE IF cut < 4 THEN Raise("ValueError: time data does not match format")
       ELSE Raise("ValueError: unconverted data remains")

\* GCRS -> ITRS -> EarthLocation at obstime: latitude, longitude and altitude
\* are a function of the position and of the epoch, left uninterpreted
Geodetic(x, y, z, this_epoch) == <<"ITRS", x, y, z, this_epoch>>

\* the loop runs to the end of the feed: sv is the last match; the epoch is
\* parsed before astropy and the geocoder are reached.  geo is what
\* Nominatim.reverse does: "address" (a Location), "none" (it returns None,
\* no address known there) or "raise" (GeocoderUnavailable, GeocoderTimedOut, ...)
get_location_info(xml_data, epoch, geo) ==
    LET parsed == extract_state_vector(xml_data)
    IN IF parsed.exc # "none" THEN Crash("location", parsed.exc, <<epoch>>)
       ELSE IF parsed.val.type = "dict"
       THEN Crash("location", "TypeError: str index", <<epoch>>)
       ELSE LET data == parsed.val.items
                m == Matches(data, epoch)
            IN IF m = {}
               THEN Response("location", "not_found", "", <<epoch>>,
                             "Epoch not found, please enter a valid epoch value",
                             <<>>, "not_called")
               ELSE LET sv == data[Max(m)]
                        this_epoch == this_epoch_of(sv.EPOCH)
                    IN IF this_epoch.exc # "none"
                       THEN Response("location", "crash", this_epoch.exc, <<epoch>>,
                                     <<>>, <<sv>>, "not_called")
                       ELSE IF geo = "raise"
                       THEN Response("location", "crash", "GeocoderError", <<epoch>>,
                                     <<>>, <<sv>>, geo)
                       ELSE Response("location", "ok", "", <<epoch>>,
                                     [geodetic |-> Geodetic(sv.X, sv.Y, sv.Z, this_epoch.val),
                                      geolocation |-> IF geo = "none" THEN "None"
                                                                      ELSE "address"],
                                     <<sv>>, geo)

---------------------------------------------------------------------------
(* The service: the feed, and one request at a time.  Handlers share no    *)
(* state, so requests in flight together cannot affect one another; what a *)
(* request sees of the rest of the world is the feed, whose replacement is *)
(* interleaved with every fetch.                                           *)

\* EpochA is written as the repository's tests write epochs, EpochB and
\* EpochAbsent as the NASA feed writes them
EpochA == <<2022, 79, 11, 58, 0, NoTail>>
EpochB == <<2022, 79, 12, 2, 0, NasaTail>>
EpochAbsent == <<2022, 79, 12, 30, 0, NasaTail>>

Samples == {StateVector(EpochA, 1, 0, 0, 1, 1, 1),
            StateVector(EpochB, 0, 1, 0, 0, 0, 2),
            StateVector(EpochB, 0, 0, 1, -1, 2, 0)}
Feeds == UNION {[1..n -> Samples] : n \in 0..MaxLen}
QueryEpochs == {EpochA, EpochB, EpochAbsent}
NowTimes == {<<2022, 79, 12, 0, 0>>, <<2022, 79, 11, 59, 0>>, <<2022, 80, 12, 0, 0>>}
Statuses == {HTTP_OK, 503}
GeocoderOutcomes == {"address", "none", "raise"}
Args == {ArgAbsent, ArgBad} \cup {ArgInt(n) : n \in -(MaxLen + MaxArg)..(MaxLen + MaxArg)}

NowIdle == [pc |-> "idle", t |-> <<>>, closest_value_index |-> NoneIndex,
            chosen |-> <<>>, snapshot |-> <<>>, one_snapshot |-> TRUE,
            speed_inst |-> 0, specific_epoch |-> <<>>, speed_sv |-> <<>>]

\* the history of fetches: a 200 makes the content the latest good one
Fetched(status_code) == IF status_code = HTTP_OK THEN <<feed>> ELSE lastGood

\* the publisher replaces the feed
FeedRefresh ==
    /\ feed' \in Feeds \ {feed}
    /\ resp' = NoResp
    /\ UNCHANGED <<lastGood, now_req, nearest, speedq>>

GetEpochs ==
    /\ now_req.pc = "idle"
    /\ \E status_code \in Statuses, offset_arg \in Args, limit_arg \in Args :
          /\ resp' = get_epochs(fetch_iss_data(status_code, feed), offset_arg, limit_arg)
          /\ lastGood' = Fetched(status_code)
    /\ UNCHANGED <<feed, now_req, nearest, speedq>>

GetSpecificEpoch ==
    /\ now_req.pc = "idle"
    /\ \E status_code \in Statuses, epoch \in QueryEpochs :
          /\ resp' = get_specific_epoch(fetch_iss_data(status_code, feed), epoch)
          /\ lastGood' = Fetched(status_code)
    /\ UNCHANGED <<feed, now_req, nearest, speedq>>

GetEpochSpeed ==
    /\ now_req.pc = "idle"
    /\ \E status_code \in Statuses, epoch \in QueryEpochs :
          /\ resp' = epoch_speed(fetch_iss_data(status_code, feed), epoch)
          /\ lastGood' = Fetched(status_code)
    /\ UNCHANGED <<feed, now_req, nearest, speedq>>

GetEpochLocation ==
    /\ now_req.pc = "idle"
    /\ \E status_code \in Statuses, epoch \in QueryEpochs, geo \in GeocoderOutcomes :
          /\ resp' = get_location_info(fetch_iss_data(status_code, feed), epoch, geo)
          /\ lastGood' = Fetched(status_code)
    /\ UNCHANGED <<feed, now_req, nearest, speedq>>

\* /now, lines 300-303: the first fetch, the clock, the nearest-epoch search
NowSearch ==
    /\ now_req.pc = "idle"
    /\ \E status_code \in Statuses, t \in NowTimes :
          LET iss_data == fetch_iss_data(status_code, feed)
              found == closest_datapoint_to_now(iss_data, t)
          IN /\ lastGood' = Fetched(status_code)
             /\ IF found.exc # "none"
                THEN /\ resp' = Crash("now", found.exc, <<t>>)
                     /\ now_req' = NowIdle
                ELSE /\ resp' = NoResp
                     /\ now_req' = [NowIdle EXCEPT
                           !.pc = "searched",
                           !.t = t,
                           !.closest_value_index = found.val,
                           !.chosen = IF found.val = NoneIndex THEN <<>>
                                      ELSE <<feed[found.val + 1]>>,
                           !.snapshot = <<feed>>]
    /\ UNCHANGED <<feed, nearest, speedq>>

\* /now, lines 304-311: the second fetch, and the index of the first applied to
\* it by the subscript of line 306: on a dict any key but its own raises
\* KeyError, on a list None raises TypeError and an index past the end IndexError
NowSpeed ==
    /\ now_req.pc = "searched"
    /\ \E status_code \in Statuses :
          LET parsed == extract_state_vector(fetch_iss_data(status_code, feed))
              i == now_req.closest_value_index
              args == <<now_req.t>>
          IN /\ lastGood' = Fetched(status_code)
             /\ IF parsed.exc # "none"
                THEN resp' = Crash("now", parsed.exc, args) /\ now_req' = NowIdle
                ELSE IF parsed.val.type = "dict"
                THEN resp' = Crash("now", IF i = NoneIndex THEN "KeyError: None"
                                          ELSE "KeyError: index into dict", args)
                     /\ now_req' = NowIdle
                ELSE IF i = NoneIndex
                THEN resp' = Crash("now", "TypeError: index None", args) /\ now_req' = NowIdle
                ELSE IF i >= Len(parsed.val.items)
                THEN resp' = Crash("now", "IndexError", args) /\ now_req' = NowIdle
                ELSE LET item == parsed.val.items[i + 1]
                     IN /\ resp' = NoResp
                        /\ now_req' = [now_req EXCEPT
                              !.pc = "speeded",
                              !.speed_inst = calculate_speed(item.X_DOT, item.Y_DOT, item.Z_DOT),
                              !.specific_epoch = item.EPOCH,
                              !.speed_sv = <<item>>,
                              !.one_snapshot = (now_req.snapshot = <<feed>>),
                              !.snapshot = <<feed>>]
    /\ UNCHANGED <<feed, nearest, speedq>>

\* /now, lines 313-317: get_location_info fetches a third time; the dict it
\* returns is merged with the speed ({**location} of a str raises)
NowLocation ==
    /\ now_req.pc = "speeded"
    /\ \E status_code \in Statuses, geo \in GeocoderOutcomes :
          LET location == get_location_info(fetch_iss_data(status_code, feed),
                                            now_req.specific_epoch, geo)
              args == <<now_req.t>>
          IN /\ lastGood' = Fetched(status_code)
             /\ resp' =
                  IF location.kind = "crash"
                  THEN [location EXCEPT !.op = "now", !.args = args]
                  ELSE IF location.kind = "not_found"
                  THEN Crash("now", "TypeError: str is not a mapping", args)
                  ELSE [location EXCEPT
                          !.op = "now",
                          !.args = args,
                          !.body = [instantaneous_speed |-> now_req.speed_inst,
                                    geodetic |-> location.body.geodetic,
                                    geolocation |-> location.body.geolocation],
                          !.trace = [chosen |-> now_req.chosen,
                                     speed_sv |-> now_req.speed_sv,
                                     loc_sv |-> location.sv,
                                     one_snapshot |-> /\ now_req.one_snapshot
                                                      /\ now_req.snapshot = <<feed>>]]
    /\ now_req' = NowIdle
    /\ UNCHANGED <<feed, nearest, speedq>>

---------------------------------------------------------------------------
(* The harness of calculate_speed: one call on a bounded integer vector.   *)

Velocities == (-MaxV..MaxV) \X (-MaxV..MaxV) \X (-MaxV..MaxV)

SpeedIdle == [v |-> <<0, 0, 0>>, done |-> FALSE, speed |-> 0]

RunSpeed ==
    /\ ~speedq.done
    /\ speedq' = [speedq EXCEPT
                    !.done = TRUE,
                    !.speed = calculate_speed(speedq.v[1], speedq.v[2], speedq.v[3])]
    /\ UNCHANGED <<feed, lastGood, now_req, resp, nearest>>

---------------------------------------------------------------------------
(* The harness of closest_datapoint_to_now: one call on a bounded feed and *)
(* a bounded current time.                                                 *)

NearestEpochs ==
    {2022, 2023} \X {79, 80} \X {11, 12} \X {2, 58} \X {0, 50} \X {NasaTail, NoTail}
NearestTimes == {2022, 2023} \X {79, 80} \X {11, 12} \X {0, 30} \X {0}
NearestSamples == {StateVector(e, x, 0, 0, 0, 0, 0) : e \in NearestEpochs, x \in {0, 1}}
NearestFeeds == UNION {[1..n -> NearestSamples] : n \in 0..MaxNearestLen}

NearestIdle == [data |-> <<>>, now |-> <<2022, 79, 12, 0, 0>>, done |-> FALSE,
                result |-> Ok(NoneIndex)]

RunClosest ==
    /\ ~nearest.done
    /\ nearest' = [nearest EXCEPT
                     !.done = TRUE,
                     !.result = closest_datapoint_to_now(
                                    fetch_iss_data(HTTP_OK, nearest.data), nearest.now)]
    /\ UNCHANGED <<feed, lastGood, now_req, resp, speedq>>

---------------------------------------------------------------------------
(* Specifications.                                                         *)

ServiceIdle ==
    /\ lastGood = <<>>
    /\ now_req = NowIdle
    /\ resp = NoResp

\* the service: any feed may be published when it starts
Init ==
    /\ feed \in Feeds
    /\ ServiceIdle
    /\ nearest = NearestIdle
    /\ speedq = SpeedIdle

Next ==
    \/ FeedRefresh
    \/ GetEpochs
    \/ GetSpecificEpoch
    \/ GetEpochSpeed
    \/ GetEpochLocation
    \/ NowSearch
    \/ NowSpeed
    \/ NowLocation

Spec == Init /\ [][Next]_vars

\* closest_datapoint_to_now alone, on every bounded feed and current time
InitNearest ==
    /\ feed = <<>>
    /\ ServiceIdle
    /\ nearest \in [data : NearestFeeds, now : NearestTimes, done : {FALSE},
                    result : {Ok(NoneIndex)}]
    /\ speedq = SpeedIdle

SpecNearest == InitNearest /\ [][RunClosest]_vars

\* calculate_speed alone, on every bounded velocity vector
InitSpeed ==
    /\ feed = <<>>
    /\ ServiceIdle
    /\ nearest = NearestIdle
    /\ speedq \in [v : Velocities, done : {FALSE}, speed : {0}]

SpecSpeed == InitSpeed /\ [][RunSpeed]_vars

---------------------------------------------------------------------------
(* Reference notions the properties are stated with.                       *)

DaysInYear(y) ==
    IF (y % 4 = 0 /\ y % 100 # 0) \/ y % 400 = 0 THEN 366 ELSE 365

RECURSIVE DaysSince2022(_)
DaysSince2022(y) == IF y <= 2022 THEN 0 ELSE DaysInYear(y - 1) + DaysSince2022(y - 1)

\* seconds from 2022-001T00:00:00 to the instant <<year, day, hour, minute, second>>
Instant(e) ==
    (DaysSince2022(e[1]) + (e[2] - 1)) * 86400 + e[3] * 3600 + e[4] * 60 + e[5]

\* true elapsed time between sample i of the harness feed and its current time
Elapsed(i) == Abs(Instant(nearest.data[i].EPOCH) - Instant(nearest.now))

\* the samples of the harness feed nearest to its current time
NearestOnes ==
    {i \in 1..Len(nearest.data) : \A j \in 1..Len(nearest.data) : Elapsed(i) <= Elapsed(j)}

\* a feed of two or more samples: the one extract_state_vector hands on as a list
IsSequence(content) == Len(content) >= 2

\* the data model's invariant: no epoch occurs twice in a set
UniqueEpochs(content) ==
    \A i, j \in 1..Len(content) : content[i].EPOCH = content[j].EPOCH => i = j

FetchFailed == resp.error = "TypeError: parse(None)"
ExactOps == {"epoch", "speed", "location"}
NonNegative(arg) == arg.isint /\ (arg.given => arg.val >= 0)
Negative(arg) == arg.given /\ arg.isint /\ arg.val < 0

\* positions offset .. min(offset+limit, N)-1 of the feed, in feed order
Positions(offset, limit) ==
    LET last == IF offset + limit < Len(feed) THEN offset + limit ELSE Len(feed)
    IN [k \in 1..(IF last > offset THEN last - offset ELSE 0) |-> feed[offset + k]]

---------------------------------------------------------------------------
(* Properties.                                                             *)

\* C1: a /now answer is computed from one snapshot: the state vector the
\* nearest-epoch search chose, the one whose velocity gave the speed and the
\* one whose position gave the location are the same sample of the same
\* fetch, and the request never fails because an index found on one fetch
\* is out of range in another, or an epoch found on one is absent from another
\* (the samples are compared on feeds whose epochs are unique).
C1_NowReadsOneSnapshot ==
    resp.op = "now" =>
        /\ resp.error \notin {"IndexError", "TypeError: str is not a mapping"}
        /\ resp.kind = "ok" =>
              /\ resp.trace.one_snapshot
              /\ UniqueEpochs(feed) =>
                    /\ resp.trace.chosen = resp.trace.speed_sv
                    /\ resp.trace.speed_sv = resp.trace.loc_sv

\* C2: stale read over no read: a query is answered although its fetch
\* failed, from the set of the latest successful fetch, and reports NotReady
\* when no fetch has succeeded yet; a failed fetch never makes it crash.
C2_StaleReadOverNoRead ==
    resp.op # "none" =>
        IF lastGood = <<>> THEN resp.kind = "not_ready" ELSE ~FetchFailed

\* C3: on a feed of exactly one sample the nearest-epoch search returns that
\* sample (index 0) whatever the current time is.
C3_SingleSampleAlwaysFound ==
    (nearest.done /\ Len(nearest.data) = 1) =>
        /\ nearest.result.exc = "none"
        /\ nearest.result.val = 0

\* C4: the nearest-epoch search returns a sample whose true elapsed time to
\* the current time is minimal over all samples of the feed (stated on the
\* feeds of two or more samples).
C4_NearestMinimisesElapsedTime ==
    (nearest.done /\ IsSequence(nearest.data)) =>
        /\ nearest.result.exc = "none"
        /\ nearest.result.val + 1 \in NearestOnes

\* C5: by-epoch lookup, speed-at-epoch and location-at-epoch resolve an epoch
\* to the first sample of the feed that carries it, and report not-found
\* exactly when no sample carries it (stated on the feeds of two or more
\* samples).
C5_ExactEpochIsFirstMatch ==
    (resp.op \in ExactOps /\ IsSequence(feed) /\ ~FetchFailed) =>
        LET m == Matches(feed, resp.args[1])
        IN IF m = {} THEN resp.kind = "not_found"
                     ELSE resp.sv = <<feed[Min(m)]>>

\* C6: for offset >= 0 and limit >= 0 the list query returns the samples at
\* positions offset .. min(offset+limit, N)-1 in feed order, the empty
\* sequence when offset >= N, and never an error.
C6_ListReturnsTheSlice ==
    (/\ resp.op = "list" /\ Len(feed) >= 1 /\ ~FetchFailed
     /\ NonNegative(resp.args[1]) /\ NonNegative(resp.args[2])) =>
        /\ resp.kind = "ok"
        /\ resp.body = Positions(IF resp.args[1].given THEN resp.args[1].val ELSE 0,
                                 IF resp.args[2].given THEN resp.args[2].val ELSE Len(feed))

\* Lemma beside C6: on every feed of two or more samples the list query does
\* return that slice; what is left of C6 to fail is the feed of one sample.
ListSliceOnSequences ==
    (/\ resp.op = "list" /\ IsSequence(feed) /\ ~FetchFailed
     /\ NonNegative(resp.args[1]) /\ NonNegative(resp.args[2])) =>
        /\ resp.kind = "ok"
        /\ resp.body = Positions(IF resp.args[1].given THEN resp.args[1].val ELSE 0,
                                 IF resp.args[2].given THEN resp.args[2].val ELSE Len(feed))

\* C7: a list query with a negative offset or a negative limit is rejected
\* as invalid input and returns no slice of the set (stated on the feeds of
\* two or more samples).
C7_NegativePagingRejected ==
    (/\ resp.op = "list" /\ IsSequence(feed) /\ ~FetchFailed
     /\ resp.args[1].isint /\ resp.args[2].isint
     /\ (Negative(resp.args[1]) \/ Negative(resp.args[2]))) =>
        resp.kind = "invalid"

\* C8: when the reverse-geocode call fails, a location or /now query still
\* returns latitude, longitude and altitude, with a placeholder place name.
C8_GeocoderFailureIsSoft ==
    (resp.op \in {"location", "now"} /\ resp.geocoder = "raise") =>
        /\ resp.kind = "ok"
        /\ resp.body.geodetic = Geodetic(resp.sv[1].X, resp.sv[1].Y, resp.sv[1].Z,
                                         this_epoch_of(resp.sv[1].EPOCH).val)

\* C9: the speed of a velocity vector is non-negative and equals the speed
\* of the opposite vector; the speed of the zero vector is zero.
C9_SpeedNonNegativeAndEven ==
    speedq.done =>
        /\ speedq.speed >= 0
        /\ speedq.speed = calculate_speed(-speedq.v[1], -speedq.v[2], -speedq.v[3])
        /\ speedq.v = <<0, 0, 0>> => speedq.speed = 0

\* C9 witness: the speed of (-1,-1,-1) was computed, and is that of (1,1,1):
\* sqrt(3), 1.732 to the model's precision.
C9_Witness ==
    /\ speedq.done
    /\ speedq.v = <<-1, -1, -1>>
    /\ speedq.speed = calculate_speed(1, 1, 1)
    /\ speedq.speed * speedq.speed <= 3 * SpeedScale * SpeedScale
    /\ (speedq.speed + 1) * (speedq.speed + 1) > 3 * SpeedScale * SpeedScale

\* C10: when two or more samples are equally near the current time in
\* elapsed time and none is nearer, the search returns the first of them in
\* feed order.
C10_TieGoesToFirstInFeedOrder ==
    (nearest.done /\ Cardinality(NearestOnes) >= 2) =>
        nearest.result.val + 1 = Min(NearestOnes)

=============================================================================
